---- MODULE Spec2Model ----
(***************************************************************************)
(* Model of inttrack.py: numeric values that record, next to the result of *)
(* every arithmetic operation, the tree of operations that produced it,    *)
(* and the renderer that turns such a tree into an infix string.           *)
(*                                                                         *)
(* Python objects are records with a "type" field:                         *)
(*   int           [type |-> "int", v]                                     *)
(*   Decimal       [type |-> "Decimal", num, den]     (value num/den,      *)
(*                  den = 10^-exponent for every literal, sum, product)    *)
(*   float         [type |-> "float", num, den]       (result of int / int)*)
(*   IntTrack      [type |-> "IntTrack", v, operations]                    *)
(*   DecimalTrack  [type |-> "DecimalTrack", num, den, operations]         *)
(*   namedtuples   [type |-> "neg", lhs], [type |-> "add", lhs, rhs], ...  *)
(*   None          [type |-> "NoneType"]                                   *)
(*   a raised exception [type |-> "ZeroDivisionError"], ...                *)
(* Strings are sequences of one-character strings.                         *)
(*                                                                         *)
(* A quotient (float or Decimal) is kept as the exact fraction num/den:    *)
(* the only thing done with one is the truncation by int.__new__, and for  *)
(* the magnitudes reached here the rounding of float and of the 28-digit   *)
(* decimal context never changes the integer part.                         *)
(***************************************************************************)
EXTENDS Integers, Sequences, FiniteSets, TLC

VARIABLES vals, last, ncalls, tree, callback, result

vars == <<vals, last, ncalls, tree, callback, result>>

(***************************************************************************)
(* Bounds and input sets                                                   *)
(***************************************************************************)
MaxCalls == 3

MaxNodes == 2

MaxCmpNodes == 1

None == [type |-> "NoneType"]

PyInt(n) == [type |-> "int", v |-> n]

PyDecimal(n, d) == [type |-> "Decimal", num |-> n, den |-> d]

PyFloat(n, d) == [type |-> "float", num |-> n, den |-> d]

Raised(name) == [type |-> name]

IntLiterals == {PyInt(-7), PyInt(2)}

DecimalLiterals == {PyDecimal(0, 1), PyDecimal(15, 10)}

Literals == IntLiterals \cup DecimalLiterals

\* literals written directly as an operand of an operator
PlainOperands == {PyInt(0), PyInt(2), PyDecimal(15, 10)}

ExceptionTypes == {"ZeroDivisionError", "DivisionByZero", "InvalidOperation"}

UnaryKinds == {"abs", "neg"}

BinaryKinds == {"add", "div", "mod", "mul", "sub"}

TrackTypes == {"IntTrack", "DecimalTrack"}

(***************************************************************************)
(* namedtuple node kinds                                                   *)
(***************************************************************************)
abs(lhs) == [type |-> "abs", lhs |-> lhs]

neg(lhs) == [type |-> "neg", lhs |-> lhs]

add(lhs, rhs) == [type |-> "add", lhs |-> lhs, rhs |-> rhs]

div(lhs, rhs) == [type |-> "div", lhs |-> lhs, rhs |-> rhs]

mod(lhs, rhs) == [type |-> "mod", lhs |-> lhs, rhs |-> rhs]

mul(lhs, rhs) == [type |-> "mul", lhs |-> lhs, rhs |-> rhs]

sub(lhs, rhs) == [type |-> "sub", lhs |-> lhs, rhs |-> rhs]

\* operation(...) : call of the namedtuple class passed as `operation`
MakeUnary(operation, lhs) ==
    IF operation = "abs" THEN abs(lhs) ELSE neg(lhs)

MakeBinary(operation, lhs, rhs) ==
    CASE operation = "add" -> add(lhs, rhs)
      [] operation = "div" -> div(lhs, rhs)
      [] operation = "mod" -> mod(lhs, rhs)
      [] operation = "mul" -> mul(lhs, rhs)
      [] OTHER             -> sub(lhs, rhs)

\* isinstance(x, tuple)
IsTuple(x) == x.type \in UnaryKinds \cup BinaryKinds

(***************************************************************************)
(* Built-in arithmetic of int, float and Decimal                           *)
(***************************************************************************)
Abs(n) == IF n < 0 THEN -n ELSE n

Sign(n) == IF n < 0 THEN -1 ELSE 1

\* quotient rounded toward zero, d # 0
TruncDiv(n, d) == Sign(n) * Sign(d) * (Abs(n) \div Abs(d))

\* Python's int % int: the result takes the sign of the divisor
IntModBad(a, b) == a - b * TruncDiv(a, b)

IntMod(a, b) ==
    LET r == a - b * TruncDiv(a, b)
    IN IF r # 0 /\ Sign(r) # Sign(b) THEN r + b ELSE r

\* int(x), the conversion int.__new__ applies to its argument: a float or a
\* Decimal is truncated toward zero
IntOf(x) ==
    IF x.type \in {"int", "IntTrack"} THEN x.v ELSE TruncDiv(x.num, x.den)

\* Decimal(x)
DecimalOf(x) ==
    IF x.type \in {"int", "IntTrack"} THEN PyDecimal(x.v, 1)
    ELSE PyDecimal(x.num, x.den)

\* type_(x) for type_ in {int, Decimal}
Convert(type_, x) ==
    IF type_ = "int" THEN PyInt(IntOf(x)) ELSE DecimalOf(x)

\* common power-of-ten denominator of two decimals (exponent = min)
CommonDen(a, b) == IF a.den >= b.den THEN a.den ELSE b.den

Scaled(a, d) == a.num * (d \div a.den)

\* operator.abs / operator.neg on an int or a Decimal
UnaryOperator(operator, a) ==
    IF a.type = "int"
    THEN PyInt(IF operator = "abs" THEN Abs(a.v) ELSE -a.v)
    ELSE PyDecimal(IF operator = "abs" THEN Abs(a.num) ELSE -a.num, a.den)

IntOperator(operator, a, b) ==
    CASE operator = "add" -> PyInt(a + b)
      [] operator = "sub" -> PyInt(a - b)
      [] operator = "mul" -> PyInt(a * b)
      [] operator = "mod" ->
            IF b = 0 THEN Raised("ZeroDivisionError") ELSE PyInt(IntMod(a, b))
      [] OTHER ->  \* truediv: a float
            IF b = 0 THEN Raised("ZeroDivisionError")
            ELSE PyFloat(Sign(b) * a, Abs(b))

DecimalOperator(operator, a, b) ==
    LET d == CommonDen(a, b)
        x == Scaled(a, d)
        y == Scaled(b, d)
    IN CASE operator = "add" -> PyDecimal(x + y, d)
         [] operator = "sub" -> PyDecimal(x - y, d)
         [] operator = "mul" -> PyDecimal(a.num * b.num, a.den * b.den)
         [] operator = "mod" ->  \* remainder takes the sign of the dividend
               IF y = 0 THEN Raised("InvalidOperation")
               ELSE PyDecimal(x - y * TruncDiv(x, y), d)
         [] OTHER ->  \* truediv; the quotient is kept as the fraction x/y
               IF y = 0
               THEN IF x = 0 THEN Raised("InvalidOperation")
                    ELSE Raised("DivisionByZero")
               ELSE PyDecimal(Sign(y) * x, Abs(y))

\* operator.add, operator.sub, ... on two ints or two Decimals
BinaryOperator(operator, a, b) ==
    IF a.type = "int" THEN IntOperator(operator, a.v, b.v)
    ELSE DecimalOperator(operator, a, b)

IsException(r) == r.type \in ExceptionTypes

(***************************************************************************)
(* The tracking classes                                                    *)
(***************************************************************************)
IntTrack(value, operations) ==
    [type |-> "IntTrack", v |-> IntOf(value), operations |-> operations]

DecimalTrack(value, operations) ==
    [type |-> "DecimalTrack", num |-> value.num, den |-> value.den,
     operations |-> operations]

track(number) ==
    IF number.type = "Decimal" THEN DecimalTrack(number, None)
    ELSE IntTrack(number, None)

\* the operand recorded for x: x.operations when x has the attribute and it
\* is not None, x itself otherwise
OperationsOf(x) ==
    IF x.type \in TrackTypes /\ x.operations # None THEN x.operations ELSE x

unary_op(type_, operator, operation, lhs) ==
    LET lhs_operations == OperationsOf(lhs)
        res == UnaryOperator(operator, Convert(type_, lhs))
    IN IntTrack(res, MakeUnary(operation, lhs_operations))

binary_op(type_, operator, operation, lhs, rhs) ==
    LET lhs_operations == OperationsOf(lhs)
        rhs_operations == OperationsOf(rhs)
        res == BinaryOperator(operator, Convert(type_, lhs), Convert(type_, rhs))
    IN IF IsException(res) THEN res
       ELSE IntTrack(res, MakeBinary(operation, lhs_operations, rhs_operations))

binary_rop(type_, operator, operation, rhs, lhs) ==
    binary_op(type_, operator, operation, lhs, rhs)

(***************************************************************************)
(* Operator methods of the two classes, built with partial(...)            *)
(***************************************************************************)
partial(function, type_, operator, operation) ==
    [function |-> function, type_ |-> type_, operator |-> operator,
     operation |-> operation]

IntTrack_method(name) ==
    CASE name = "__abs__"      -> partial("unary_op", "int", "abs", "abs")
      [] name = "__neg__"      -> partial("unary_op", "int", "neg", "neg")
      [] name = "__add__"      -> partial("binary_op", "int", "add", "add")
      [] name = "__mod__"      -> partial("binary_op", "int", "mod", "mod")
      [] name = "__mul__"      -> partial("binary_op", "int", "mul", "mul")
      [] name = "__sub__"      -> partial("binary_op", "int", "sub", "sub")
      [] name = "__truediv__"  -> partial("binary_op", "int", "truediv", "div")
      [] name = "__radd__"     -> partial("binary_rop", "int", "add", "add")
      [] name = "__rmod__"     -> partial("binary_rop", "int", "mod", "mod")
      [] name = "__rmul__"     -> partial("binary_rop", "int", "mul", "mul")
      [] name = "__rsub__"     -> partial("binary_rop", "int", "sub", "sub")
      [] name = "__rtruediv__" -> partial("binary_rop", "int", "truediv", "div")

DecimalTrack_method(name) ==
    CASE name = "__abs__"      -> partial("unary_op", "Decimal", "abs", "abs")
      [] name = "__neg__"      -> partial("unary_op", "Decimal", "neg", "neg")
      [] name = "__add__"      -> partial("binary_op", "Decimal", "add", "add")
      [] name = "__mod__"      -> partial("binary_op", "Decimal", "mod", "mod")
      [] name = "__mul__"      -> partial("binary_op", "Decimal", "mul", "mul")
      [] name = "__sub__"      -> partial("binary_op", "Decimal", "sub", "sub")
      [] name = "__truediv__"  -> partial("binary_op", "Decimal", "truediv", "div")
      [] name = "__radd__"     -> partial("binary_rop", "Decimal", "add", "add")
      [] name = "__rmod__"     -> partial("binary_rop", "Decimal", "mod", "mod")
      [] name = "__rmul__"     -> partial("binary_rop", "Decimal", "mul", "mul")
      [] name = "__rsub__"     -> partial("binary_rop", "Decimal", "sub", "sub")
      [] name = "__rtruediv__" -> partial("binary_op", "Decimal", "truediv", "div")

\* bind(*args): the partial called with self (and the other operand) first
bind1(p, self) == unary_op(p.type_, p.operator, p.operation, self)

bind2(p, self, other) ==
    IF p.function = "binary_op"
    THEN binary_op(p.type_, p.operator, p.operation, self, other)
    ELSE binary_rop(p.type_, p.operator, p.operation, self, other)

Method(cls, name) ==
    IF cls = "IntTrack" THEN IntTrack_method(name) ELSE DecimalTrack_method(name)

UnaryOps == {"abs", "neg"}

BinaryOps == {"add", "sub", "mul", "truediv", "mod"}

UnaryName(op) == IF op = "abs" THEN "__abs__" ELSE "__neg__"

LeftName(op) ==
    CASE op = "add" -> "__add__" [] op = "sub" -> "__sub__"
      [] op = "mul" -> "__mul__" [] op = "mod" -> "__mod__"
      [] OTHER -> "__truediv__"

RightName(op) ==
    CASE op = "add" -> "__radd__" [] op = "sub" -> "__rsub__"
      [] op = "mul" -> "__rmul__" [] op = "mod" -> "__rmod__"
      [] OTHER -> "__rtruediv__"

\* abs(x) and -x on a tracked value
UnaryExpr(op, x) == bind1(Method(x.type, UnaryName(op)), x)

\* x OP y where at least one operand is a tracked value.  A tracked left
\* operand handles the operation; otherwise the tracked right operand's
\* reflected method does, except that Decimal's own method accepts an
\* IntTrack (an int) and answers with a plain Decimal.
BinaryExpr(op, x, y) ==
    IF x.type \in TrackTypes
    THEN bind2(Method(x.type, LeftName(op)), x, y)
    ELSE IF x.type = "Decimal" /\ y.type = "IntTrack"
    THEN BinaryOperator(op, x, DecimalOf(y))
    ELSE bind2(Method(y.type, RightName(op)), y, x)

(***************************************************************************)
(* State: the tracked values created so far, and the last call             *)
(***************************************************************************)
Ref(i) == [kind |-> "ref", idx |-> i, lit |-> None]

Lit(n) == [kind |-> "lit", idx |-> 0, lit |-> n]

NoOperand == [kind |-> "none", idx |-> 0, lit |-> None]

Operands == {Ref(i) : i \in DOMAIN vals} \cup {Lit(n) : n \in PlainOperands}

ValueOf(o) == IF o.kind = "ref" THEN vals[o.idx] ELSE o.lit

Call(call, op, x, y, raised, tracked, plain) ==
    [call |-> call, op |-> op, x |-> x, y |-> y, raised |-> raised,
     tracked |-> tracked, plain |-> plain]

NoCall == Call("none", "none", NoOperand, NoOperand, "None", FALSE, None)

\* object creation: the new object joins the existing ones
newBad(heap, obj) ==
    IF heap = <<>> THEN <<obj>> ELSE [heap EXCEPT ![Len(heap)] = obj]

new(heap, obj) == Append(heap, obj)

Outcome(call, op, x, y, r) ==
    IF IsException(r)
    THEN /\ vals' = vals
         /\ last' = Call(call, op, x, y, r.type, FALSE, None)
    ELSE IF r.type \in TrackTypes
    THEN /\ vals' = new(vals, r)
         /\ last' = Call(call, op, x, y, "None", TRUE, None)
    ELSE /\ vals' = vals
         /\ last' = Call(call, op, x, y, "None", FALSE, r)

\* an exception that nothing catches ends the calling program; ncalls counts
\* the calls made
Running ==
    /\ last.raised = "None"
    /\ ncalls < MaxCalls
    /\ ncalls' = ncalls + 1

Init ==
    /\ vals = <<>>
    /\ last = NoCall
    /\ ncalls = 0
    /\ tree = None
    /\ callback = "None"
    /\ result = <<>>

Track ==
    /\ Running
    /\ \E n \in Literals :
        /\ Outcome("track", "track", Lit(n), NoOperand, track(n))
        /\ UNCHANGED <<tree, callback, result>>

Unary ==
    /\ Running
    /\ \E op \in UnaryOps, i \in DOMAIN vals :
        /\ Outcome("unary", op, Ref(i), NoOperand, UnaryExpr(op, vals[i]))
        /\ UNCHANGED <<tree, callback, result>>

Binary ==
    /\ Running
    /\ \E op \in BinaryOps, x \in Operands, y \in Operands :
        /\ ~(x.kind = "lit" /\ y.kind = "lit")
        /\ Outcome("binary", op, x, y, BinaryExpr(op, ValueOf(x), ValueOf(y)))
        /\ UNCHANGED <<tree, callback, result>>

Next == Track \/ Unary \/ Binary

Spec == Init /\ [][Next]_vars

(***************************************************************************)
(* The renderer                                                            *)
(***************************************************************************)
Digit(d) == <<"0", "1", "2", "3", "4", "5", "6", "7", "8", "9">>[d + 1]

RECURSIVE NatStr(_)
NatStr(n) ==
    IF n < 10 THEN <<Digit(n)>> ELSE NatStr(n \div 10) \o <<Digit(n % 10)>>

\* int.__str__
IntStr(n) == IF n < 0 THEN <<"-">> \o NatStr(-n) ELSE NatStr(n)

\* the digits after the decimal point: one per factor ten of den
RECURSIVE FracStr(_, _)
FracStr(n, den) ==
    IF den = 1 THEN <<>>
    ELSE FracStr(n \div 10, den \div 10) \o <<Digit(n % 10)>>

\* Decimal.__str__ for a non-positive exponent
DecimalStr(d) ==
    (IF d.num < 0 THEN <<"-">> ELSE <<>>)
    \o NatStr(Abs(d.num) \div d.den)
    \o (IF d.den = 1 THEN <<>> ELSE <<".">> \o FracStr(Abs(d.num) % d.den, d.den))

\* str(x); the tracking classes inherit __str__ from int and Decimal
str(x) ==
    IF x.type \in {"int", "IntTrack"} THEN IntStr(x.v) ELSE DecimalStr(x)

\* the templates; "{}" is a replacement field
op_formatBad(name) ==
    CASE name = "abs" -> <<"a", "b", "s", "(", "{}", ")">>
      [] name = "neg" -> <<"-", "{}">>
      [] name = "add" -> <<"{}", " ", "+", " ", "{}">>
      [] name = "div" -> <<"{}", " ", "/", " ", "{}">>
      [] name = "mod" -> <<"{}", " ", "%", " ", "{}">>
      [] name = "mul" -> <<"{}", " ", "*", " ", "{}">>
      [] name = "sub" -> <<"{}", " ", "+", " ", "{}">>

op_format(name) ==
    CASE name = "abs" -> <<"a", "b", "s", "(", "{}", ")">>
      [] name = "neg" -> <<"-", "{}">>
      [] name = "add" -> <<"{}", " ", "+", " ", "{}">>
      [] name = "div" -> <<"{}", " ", "/", " ", "{}">>
      [] name = "mod" -> <<"{}", " ", "%", " ", "{}">>
      [] name = "mul" -> <<"{}", " ", "*", " ", "{}">>
      [] name = "sub" -> <<"{}", " ", "-", " ", "{}">>

\* template.format(*args): each "{}" takes the next argument
RECURSIVE Format(_, _)
Format(template, args) ==
    IF template = <<>> THEN <<>>
    ELSE IF Head(template) = "{}"
    THEN Head(args) \o Format(Tail(template), Tail(args))
    ELSE <<Head(template)>> \o Format(Tail(template), args)

\* '({})'.format(s)
ParenthesizeBad(s) == s

Parenthesize(s) == Format(<<"(", "{}", ")">>, <<s>>)

\* iteration over a namedtuple yields its fields in declaration order
Fields(operations) ==
    IF operations.type \in UnaryKinds THEN <<operations.lhs>>
    ELSE <<operations.lhs, operations.rhs>>

\* the callbacks a caller supplies: none, or lambda n: n * 2
Callbacks == {"None", "double"}

ApplyCallback(cb, n) ==
    IF n.type \in TrackTypes THEN BinaryExpr("mul", n, PyInt(2))
    ELSE BinaryOperator("mul", n, Convert(n.type, PyInt(2)))

RECURSIVE expression(_, _)
expression(operations, cb) ==
    IF ~IsTuple(operations)
    THEN IF cb # "None" THEN str(ApplyCallback(cb, operations))
         ELSE str(operations)
    ELSE LET fields == Fields(operations)
             subexpressions ==
                 [i \in DOMAIN fields |-> expression(fields[i], cb)]
         IN Parenthesize(Format(op_format(operations.type), subexpressions))

(***************************************************************************)
(* Trees handed to the renderer                                            *)
(***************************************************************************)
RenderLeaves ==
    {PyInt(-2), PyInt(2), track(PyInt(5)), PyDecimal(15, 10)}

RECURSIVE TreesOfSize(_, _)
TreesOfSize(leaves, n) ==
    IF n = 0 THEN leaves
    ELSE {MakeUnary(k, t) : k \in UnaryKinds, t \in TreesOfSize(leaves, n - 1)}
         \cup UNION {{MakeBinary(k, l, r) : k \in BinaryKinds,
                                            l \in TreesOfSize(leaves, i),
                                            r \in TreesOfSize(leaves, n - 1 - i)}
                     : i \in 0..(n - 1)}

TreesUpTo(leaves, n) == UNION {TreesOfSize(leaves, k) : k \in 0..n}

RECURSIVE Size(_)
Size(t) ==
    IF ~IsTuple(t) THEN 0
    ELSE IF t.type \in UnaryKinds THEN 1 + Size(t.lhs)
    ELSE 1 + Size(t.lhs) + Size(t.rhs)

\* the smaller operand of a binary node of at most MaxNodes nodes
OperandTrees == TreesUpTo(RenderLeaves, (MaxNodes - 1) \div 2)

InitRender ==
    /\ vals = <<>>
    /\ last = NoCall
    /\ ncalls = 0
    /\ tree \in RenderLeaves
    /\ callback \in Callbacks
    /\ result = <<>>

\* the caller builds abs(tree) or neg(tree)
NodeUnary ==
    /\ result = <<>>
    /\ Size(tree) < MaxNodes
    /\ \E k \in UnaryKinds : tree' = MakeUnary(k, tree)
    /\ UNCHANGED <<vals, last, ncalls, callback, result>>

\* the caller builds add(tree, other), add(other, tree), ...
NodeBinary ==
    /\ result = <<>>
    /\ Size(tree) < MaxNodes
    /\ \E k \in BinaryKinds, other \in OperandTrees :
          /\ Size(tree) + Size(other) < MaxNodes
          /\ \/ tree' = MakeBinary(k, tree, other)
             \/ tree' = MakeBinary(k, other, tree)
    /\ UNCHANGED <<vals, last, ncalls, callback, result>>

Render ==
    /\ result = <<>>
    /\ result' = expression(tree, callback)
    /\ UNCHANGED <<vals, last, ncalls, tree, callback>>

NextRender == NodeUnary \/ NodeBinary \/ Render

SpecRender == InitRender /\ [][NextRender]_vars

(***************************************************************************)
(* Vocabulary of the properties                                            *)
(***************************************************************************)
IsTracked(x) == x.type \in TrackTypes

HasTree(x) == IsTracked(x) /\ x.operations # None

\* the raw literal a tracked value was made from
Literal(x) ==
    CASE x.type = "IntTrack"     -> PyInt(x.v)
      [] x.type = "DecimalTrack" -> PyDecimal(x.num, x.den)
      [] OTHER                   -> x

\* a tree with every tracked value at a leaf replaced by its raw literal:
\* trees are compared as Python's == compares them, by the value of the leaves
RECURSIVE Unwrap(_)
Unwrap(t) ==
    IF ~IsTuple(t) THEN Literal(t)
    ELSE IF t.type \in UnaryKinds THEN MakeUnary(t.type, Unwrap(t.lhs))
    ELSE MakeBinary(t.type, Unwrap(t.lhs), Unwrap(t.rhs))

\* what the recording rule asks to record for an operand
Recorded(x) == IF HasTree(x) THEN Unwrap(x.operations) ELSE Literal(x)

NodeKind(op) == IF op = "truediv" THEN "div" ELSE op

LastResult == vals[Len(vals)]

LastX == ValueOf(last.x)

LastY == ValueOf(last.y)

Operated == last.call \in {"unary", "binary"} /\ last.raised = "None"

IsZero(x) == IF x.type \in {"int", "IntTrack"} THEN x.v = 0 ELSE x.num = 0

IsIntKind(x) == x.type \in {"int", "IntTrack"}

RECURSIVE Leaves(_)
Leaves(t) ==
    IF ~IsTuple(t) THEN {t}
    ELSE IF t.type \in UnaryKinds THEN Leaves(t.lhs)
    ELSE Leaves(t.lhs) \cup Leaves(t.rhs)

RECURSIVE Kinds(_)
Kinds(t) ==
    IF ~IsTuple(t) THEN {}
    ELSE IF t.type \in UnaryKinds THEN {t.type} \cup Kinds(t.lhs)
    ELSE {t.type} \cup Kinds(t.lhs) \cup Kinds(t.rhs)

RECURSIVE Depth(_)
Depth(t) ==
    IF ~IsTuple(t) THEN 0
    ELSE IF t.type \in UnaryKinds THEN 1 + Depth(t.lhs)
    ELSE 1 + (IF Depth(t.lhs) >= Depth(t.rhs) THEN Depth(t.lhs) ELSE Depth(t.rhs))

(***************************************************************************)
(* C1  Operand recording rule: the tree recorded by a unary or binary      *)
(* operation is a node of the operation's kind whose operand in each       *)
(* position is the tree of the operand written in that position when that  *)
(* operand is a tracked value with a tree, and its literal value otherwise.*)
(***************************************************************************)
C1_OperandRecordingRule ==
    (Operated /\ last.tracked) =>
        Unwrap(LastResult.operations) =
            IF last.call = "unary"
            THEN MakeUnary(last.op, Recorded(LastX))
            ELSE MakeBinary(NodeKind(last.op), Recorded(LastX), Recorded(LastY))

(***************************************************************************)
(* C2  Order preservation: for `tracked OP literal` and `literal OP        *)
(* tracked`, in both kinds, the node's left operand is the left-hand side, *)
(* its right operand the right-hand side, and the value is left OP right   *)
(* (as held by the result, whatever it keeps of the quotient).             *)
(***************************************************************************)
C2_OrderPreserved ==
    (/\ Operated
     /\ last.call = "binary"
     /\ last.tracked
     /\ IsTracked(LastX) # IsTracked(LastY)) =>
        LET kind == IF "IntTrack" \in {LastX.type, LastY.type} THEN "int"
                    ELSE "Decimal"
        IN /\ Unwrap(LastResult.operations.lhs) = Recorded(LastX)
           /\ Unwrap(LastResult.operations.rhs) = Recorded(LastY)
           /\ LastResult.v = IntOf(BinaryOperator(last.op, Convert(kind, LastX),
                                                  Convert(kind, LastY)))

(***************************************************************************)
(* C3  Integer-kind division is true division: track(a) / b and            *)
(* track(a) / track(b), b # 0, hold the exact quotient a/b.                *)
(***************************************************************************)
C3_TrueDivision ==
    (/\ Operated
     /\ last.call = "binary"
     /\ last.op = "truediv"
     /\ LastX.type = "IntTrack"
     /\ IsIntKind(LastY)) =>
        /\ last.tracked
        /\ LastResult.v * IntOf(LastY) = IntOf(LastX)

(***************************************************************************)
(* C4  Decimal-kind arithmetic is preserved: an operation on a tracked     *)
(* value made from a decimal literal gives a decimal-kind tracked value    *)
(* holding the exact decimal result.                                       *)
(***************************************************************************)
C4_DecimalPreserved ==
    (/\ Operated
     /\ last.tracked
     /\ LastX.type = "DecimalTrack") =>
        LET exact == IF last.call = "unary"
                     THEN UnaryOperator(last.op, DecimalOf(LastX))
                     ELSE BinaryOperator(last.op, DecimalOf(LastX), DecimalOf(LastY))
        IN /\ LastResult.type = "DecimalTrack"
           /\ LastResult.num * exact.den = exact.num * LastResult.den

(***************************************************************************)
(* C5  Node operands are never tracked values: every operand position of   *)
(* every recorded tree holds a raw literal or a node.                      *)
(***************************************************************************)
C5_OperandsNeverTracked ==
    \A i \in DOMAIN vals :
        vals[i].operations # None =>
            \A leaf \in Leaves(vals[i].operations) : ~IsTracked(leaf)

(***************************************************************************)
(* C8  Division or modulo by zero (literal or tracked divisor, either      *)
(* kind, either orientation) ends in the arithmetic error and produces no  *)
(* tracked value.                                                          *)
(***************************************************************************)
C8_ZeroDivisorRaises ==
    (/\ last.call = "binary"
     /\ last.op \in {"truediv", "mod"}
     /\ IsZero(LastY)) =>
        /\ last.raised \in ExceptionTypes
        /\ ~last.tracked

(***************************************************************************)
(* C9  Tracked values are never mutated: every step leaves each tracked    *)
(* value created earlier with the value and the tree it had; an operation  *)
(* only adds a new tracked value.                                          *)
(***************************************************************************)
C9_NeverMutated ==
    [][/\ Len(vals') >= Len(vals)
       /\ \A i \in DOMAIN vals : vals'[i] = vals[i]]_vars

\* r + r (or another operation of r with itself), r carrying a tree, done
C9_Witness ==
    /\ Operated
    /\ last.call = "binary"
    /\ last.tracked
    /\ last.x.kind = "ref"
    /\ last.y = last.x
    /\ HasTree(LastX)
    /\ LastResult.operations.lhs = LastX.operations
    /\ LastResult.operations.rhs = LastX.operations

(***************************************************************************)
(* C10  Value/tree agreement: a tracked value whose tree has only integer  *)
(* leaves and no division holds the value of that tree under exact integer *)
(* arithmetic, modulo taking the sign of the divisor.                      *)
(***************************************************************************)
FloorMod(a, b) ==
    IF b > 0 THEN a % b ELSE IF b < 0 THEN -((-a) % (-b)) ELSE 0

RECURSIVE Eval(_)
Eval(t) ==
    CASE ~IsTuple(t)    -> t.v
      [] t.type = "neg" -> -Eval(t.lhs)
      [] t.type = "abs" -> Abs(Eval(t.lhs))
      [] t.type = "add" -> Eval(t.lhs) + Eval(t.rhs)
      [] t.type = "sub" -> Eval(t.lhs) - Eval(t.rhs)
      [] t.type = "mul" -> Eval(t.lhs) * Eval(t.rhs)
      [] t.type = "mod" -> FloorMod(Eval(t.lhs), Eval(t.rhs))

IntegerTree(t) ==
    /\ \A leaf \in Leaves(t) : IsIntKind(leaf)
    /\ "div" \notin Kinds(t)

C10_ValueTreeAgreement ==
    \A i \in DOMAIN vals :
        (vals[i].operations # None /\ IntegerTree(vals[i].operations)) =>
            vals[i].v = Eval(vals[i].operations)

\* 2 - (track(-7) % 2): a reflected operation over a modulo of a negative
C10_Witness ==
    \E i \in DOMAIN vals :
        /\ vals[i].operations # None
        /\ Unwrap(vals[i].operations) = sub(PyInt(2), mod(PyInt(-7), PyInt(2)))
        /\ vals[i].v = 1

(***************************************************************************)
(* C6  Renderer definition: a literal renders as the string form of        *)
(* callback(literal), or of the literal without a callback; a node renders *)
(* as "(" template ")" with the template of its kind filled with the       *)
(* renderings of its operands from left to right, so that every node adds  *)
(* exactly one pair of enclosing parentheses.                              *)
(***************************************************************************)
RECURSIVE Rendering(_, _)
Rendering(t, cb) ==
    CASE ~IsTuple(t) ->
            IF cb = "None" THEN str(t) ELSE str(ApplyCallback(cb, t))
      [] t.type = "abs" ->
            <<"(", "a", "b", "s", "(">> \o Rendering(t.lhs, cb) \o <<")", ")">>
      [] t.type = "neg" ->
            <<"(", "-">> \o Rendering(t.lhs, cb) \o <<")">>
      [] t.type = "add" ->
            <<"(">> \o Rendering(t.lhs, cb) \o <<" ", "+", " ">>
                    \o Rendering(t.rhs, cb) \o <<")">>
      [] t.type = "sub" ->
            <<"(">> \o Rendering(t.lhs, cb) \o <<" ", "-", " ">>
                    \o Rendering(t.rhs, cb) \o <<")">>
      [] t.type = "mul" ->
            <<"(">> \o Rendering(t.lhs, cb) \o <<" ", "*", " ">>
                    \o Rendering(t.rhs, cb) \o <<")">>
      [] t.type = "div" ->
            <<"(">> \o Rendering(t.lhs, cb) \o <<" ", "/", " ">>
                    \o Rendering(t.rhs, cb) \o <<")">>
      [] t.type = "mod" ->
            <<"(">> \o Rendering(t.lhs, cb) \o <<" ", "%", " ">>
                    \o Rendering(t.rhs, cb) \o <<")">>

Count(text, c) == Cardinality({i \in DOMAIN text : text[i] = c})

RECURSIVE CountKinds(_, _)
CountKinds(t, kinds) ==
    IF ~IsTuple(t) THEN 0
    ELSE (IF t.type \in kinds THEN 1 ELSE 0)
         + CountKinds(t.lhs, kinds)
         + (IF t.type \in BinaryKinds THEN CountKinds(t.rhs, kinds) ELSE 0)

C6_RendererDefinition ==
    result # <<>> =>
        /\ result = Rendering(tree, callback)
        /\ Count(result, "(") =
               CountKinds(tree, UnaryKinds \cup BinaryKinds)
               + CountKinds(tree, {"abs"})
        /\ Count(result, ")") = Count(result, "(")

\* sub(mul(5, 2), -2) rendered with the callback applied to the three leaves
C6_Witness ==
    /\ tree = sub(mul(track(PyInt(5)), PyInt(2)), PyInt(-2))
    /\ callback = "double"
    /\ result = <<"(", "(", "1", "0", " ", "*", " ", "4", ")", " ", "-", " ",
                  "-", "4", ")">>

(***************************************************************************)
(* C7  Rendering is unambiguous: without a callback and over integer       *)
(* literals, a tree renders to the same string as another tree only when   *)
(* the two have the same structure and literals.                           *)
(***************************************************************************)
IntLeaves == {Literal(l) : l \in {x \in RenderLeaves : IsIntKind(x)}}

CmpRendered ==
    {<<u, expression(u, "None")>> : u \in TreesUpTo(IntLeaves, MaxCmpNodes)}

====
